---- MODULE Spec2Model ----
(***************************************************************************)
(* Model of backend/app.py: the module globals model / tokenizer /         *)
(* current_model_name with unload_model and load_model_dynamic, the        *)
(* /config/model handler, the /ws streaming handler with its generation    *)
(* worker thread, the /chat handler, the prompt format, and the            *)
(* single-threaded event loop that runs the handlers.                      *)
(***************************************************************************)
EXTENDS Integers, Sequences, FiniteSets, TLC

\* ------------------------------------------------------------ universe

None == "None"
NoFile == "NoFile"
Models == {"A", "B"}
DefaultModel == "A"

Sessions == {"s1", "s2"}
Reqs == {"r1", "r2"}
Chats == {"c1"}
Startup == "startup"
Tasks == Sessions \cup Reqs \cup Chats \cup {Startup}
Idle == "idle"

\* Fragments one worker thread produces at most in one generation.
MaxFrags == 2

\* The stop signal TextIteratorStreamer.end() puts on the queue. Text items
\* are numbered 1, 2, ... in the order the worker produces them; empty text,
\* which line 304 skips, is left out of the queue.
END == -1

NoModel == [id |-> None, stage |-> "none"]

\* ChatMessage: role and content are any strings; "tool" stands for every
\* role that is none of system, user, assistant.
Roles == {"system", "user", "assistant", "tool"}
Contents == {"x", "y"}
ChatMessage == [role : Roles, content : Contents]

\* Messages in one call of format_messages_for_qwen.
MaxMsgs == 2

VARIABLES
  model,                \* global model: NoModel, or the instance and how far it was built
  tokenizer,            \* global tokenizer: None or the id it was loaded for
  current_model_name,   \* global current_model_name
  fresh,                \* instance from_pretrained has built and the assignment has not bound yet
  MODEL_NAME,           \* module constant, read once at import
  configFile,           \* content of model_config.json
  running,              \* the task the event loop is executing, or Idle
  pc,                   \* position of each task
  larg,                 \* model_name argument of the task's load_model_dynamic call
  unloads,              \* models released by unload_model in the task's current call
  acquires,             \* model instances acquired in the task's current call
  entryName,            \* the model resident when the task's call began, or None
  body,                 \* "model" field of a /config/model request
  overlapWith,          \* id another request loaded while this one was pending
  proto,                \* where the events sent on the connection stand in the grammar
  cycle,                \* "open" from a request's receipt to its terminal event, else "none"
  failed,               \* a send on the connection has failed: the client is gone
  lateWrite,            \* a write was attempted after a send had failed
  erred,                \* the connection's last cycle ended with the error event
  active_connections,   \* ConnectionManager.active_connections
  thread,               \* worker thread of the session's generation
  queue,                \* the streamer's text queue
  produced,             \* fragments the worker has produced
  delivered,            \* token events sent in the session's current stream
  messages,             \* argument of format_messages_for_qwen
  prompt                \* its result, None before the call

slotVars == <<model, tokenizer, current_model_name, fresh>>
cfgVars == <<MODEL_NAME, configFile>>
callVars == <<larg, unloads, acquires, entryName>>
reqVars == <<body, overlapWith>>
sessVars == <<proto, cycle, failed, lateWrite, erred, active_connections>>
workVars == <<thread, queue, produced, delivered>>
fmtVars == <<messages, prompt>>
vars == <<slotVars, cfgVars, running, pc, callVars, reqVars, sessVars, workVars, fmtVars>>

LoadPcs == {"L_check", "L_tok", "L_model", "L_prep"}
RetPcs == {"L_ret_true", "L_ret_false"}

\* ------------------------------------------------------------ helpers

load_model_config(file) == IF file = NoFile THEN DefaultModel ELSE file

\* Line 145 with the comparison lost: the resident model is never unloaded.
NeedsUnloadNever(cur, name) == FALSE

\* Line 145: "if current_model_name != model_name".
NeedsUnload(cur, name) == cur # name

\* unload_model: nothing when model is None; otherwise every global is
\* cleared, by the normal path (125-127) or by the except path (133-135).
unload_model(m, tk, nm, raised) ==
  IF m # NoModel
    THEN IF raised
           THEN [m |-> NoModel, tk |-> None, nm |-> None]
           ELSE [m |-> NoModel, tk |-> None, nm |-> None]
    ELSE [m |-> m, tk |-> tk, nm |-> nm]

\* load_model's cache hit, line 223.
LoadModelHit == model # NoModel /\ current_model_name = MODEL_NAME

\* /health, lines 352-358.
health_check ==
  [model |-> MODEL_NAME, current_model |-> current_model_name,
   model_loaded |-> (model # NoModel)]

\* A model is resident: built to the end (188-198) and named (203).
Resident == model.stage = "eval" /\ current_model_name = model.id

\* Everything in the slot was loaded for id.
OwnedBy(id) == model.id = id /\ tokenizer = id /\ current_model_name = id

Go(t, p) == pc' = [pc EXCEPT ![t] = p]

\* Entry of load_model_dynamic(name) in task t.
EnterLoad(t, name) ==
  /\ larg' = [larg EXCEPT ![t] = name]
  /\ unloads' = [unloads EXCEPT ![t] = 0]
  /\ acquires' = [acquires EXCEPT ![t] = 0]
  /\ entryName' = [entryName EXCEPT ![t] = IF Resident THEN current_model_name ELSE None]

\* Leaving a call of load_model_dynamic: its frame is gone.
LeaveLoad(t) ==
  /\ larg' = [larg EXCEPT ![t] = None]
  /\ unloads' = [unloads EXCEPT ![t] = 0]
  /\ acquires' = [acquires EXCEPT ![t] = 0]
  /\ entryName' = [entryName EXCEPT ![t] = None]

\* ------------------------------------------------------------ prompt format

\* A string is modelled as the sequence of its pieces.
NL == "\n"

\* Lines 252, 254, 256: the f-string of one message.
Block(msg) == <<"<|im_start|>", msg.role, NL, msg.content, "<|im_end|>">>

\* Line 258: the open assistant block.
OpenAssistant == <<"<|im_start|>", "assistant", NL>>

\* Lines 249-256: the list of blocks; a message whose role is none of
\* system, user, assistant appends nothing.
RECURSIVE FallbackBlocks(_)
FallbackBlocks(msgs) ==
  IF msgs = <<>> THEN <<>>
  ELSE (IF Head(msgs).role \in {"system", "user", "assistant"}
          THEN <<Block(Head(msgs))>>
          ELSE <<>>) \o FallbackBlocks(Tail(msgs))

\* Line 259: "\n".join(list).
RECURSIVE JoinLines(_)
JoinLines(list) ==
  IF list = <<>> THEN <<>>
  ELSE IF Len(list) = 1 THEN list[1]
  ELSE list[1] \o <<NL>> \o JoinLines(Tail(list))

\* Line 244: what the tokenizer's own chat template returns is not modelled
\* further.
Templated == <<"apply_chat_template">>

\* format_messages_for_qwen: the tokenizer's template when it has one and
\* applying it does not raise (236-246), else the manual format (249-259).
format_messages_for_qwen(msgs, template) ==
  IF template THEN Templated
  ELSE JoinLines(FallbackBlocks(msgs) \o <<OpenAssistant>>)

\* ------------------------------------------------------------ initial state

InitServer ==
  /\ model = NoModel
  /\ tokenizer = None
  /\ current_model_name = None
  /\ fresh = None
  /\ configFile = NoFile
  /\ MODEL_NAME = load_model_config(configFile)
  /\ running = Startup
  /\ pc = [t \in Tasks |->
             IF t = Startup THEN "L_check" ELSE IF t \in Sessions THEN "off" ELSE "idle"]
  /\ larg = [t \in Tasks |-> IF t = Startup THEN MODEL_NAME ELSE None]
  /\ unloads = [t \in Tasks |-> 0]
  /\ acquires = [t \in Tasks |-> 0]
  /\ entryName = [t \in Tasks |-> None]
  /\ body = [r \in Reqs |-> None]
  /\ overlapWith = [r \in Reqs |-> None]
  /\ proto = [s \in Sessions |-> "q0"]
  /\ cycle = [s \in Sessions |-> "none"]
  /\ failed = [s \in Sessions |-> FALSE]
  /\ lateWrite = [s \in Sessions |-> FALSE]
  /\ erred = [s \in Sessions |-> FALSE]
  /\ active_connections = <<>>
  /\ thread = [s \in Sessions |-> "none"]
  /\ queue = [s \in Sessions |-> <<>>]
  /\ produced = [s \in Sessions |-> 0]
  /\ delivered = [s \in Sessions |-> 0]

Init ==
  /\ InitServer
  /\ messages = <<>>
  /\ prompt = None

\* A call of format_messages_for_qwen with any list of up to MaxMsgs messages.
InitFormat ==
  /\ InitServer
  /\ messages \in UNION {[1..n -> ChatMessage] : n \in 0..MaxMsgs}
  /\ prompt = None

\* ------------------------------------------------------------ load_model_dynamic

\* Lines 145-146: unload the current model if it is a different one.
LCheck(t) ==
  /\ running = t /\ pc[t] = "L_check"
  /\ \E raised \in BOOLEAN :
       LET u == IF NeedsUnload(current_model_name, larg[t])
                  THEN unload_model(model, tokenizer, current_model_name, raised)
                  ELSE [m |-> model, tk |-> tokenizer, nm |-> current_model_name]
       IN /\ model' = u.m
          /\ tokenizer' = u.tk
          /\ current_model_name' = u.nm
          /\ unloads' = [unloads EXCEPT ![t] =
                           IF u.m # model THEN unloads[t] + 1 ELSE unloads[t]]
  /\ Go(t, "L_tok")
  /\ UNCHANGED <<fresh, cfgVars, fmtVars, running, larg, acquires, entryName, reqVars,
                 sessVars, workVars>>

\* Lines 153-157: AutoTokenizer.from_pretrained.
LTokenizer(t) ==
  /\ running = t /\ pc[t] = "L_tok"
  /\ \E ok \in BOOLEAN :
       IF ok
         THEN tokenizer' = larg[t] /\ Go(t, "L_model")
         ELSE tokenizer' = tokenizer /\ Go(t, "L_ret_false")
  /\ UNCHANGED <<model, current_model_name, fresh, cfgVars, fmtVars, running, callVars,
                 reqVars, sessVars, workVars>>

\* Lines 160-182: AutoModelForCausalLM.from_pretrained builds the new
\* instance; the global still holds whatever it held.
LAcquire(t) ==
  /\ running = t /\ pc[t] = "L_model"
  /\ \E ok \in BOOLEAN :
       IF ok
         THEN /\ fresh' = larg[t]
              /\ acquires' = [acquires EXCEPT ![t] = acquires[t] + 1]
              /\ Go(t, "L_prep")
         ELSE /\ UNCHANGED <<fresh, acquires>>
              /\ Go(t, "L_ret_false")
  /\ UNCHANGED <<model, tokenizer, current_model_name, cfgVars, fmtVars, running, larg,
                 unloads, entryName, reqVars, sessVars, workVars>>

\* The assignment of lines 162/172 binds the new instance; then lines
\* 185-198 (to(DEVICE), eval(), inference switches), which may raise, and
\* line 203. Lines 204-211 only log.
LPrepare(t) ==
  /\ running = t /\ pc[t] = "L_prep"
  /\ \E ok \in BOOLEAN :
       IF ok
         THEN /\ model' = [id |-> fresh, stage |-> "eval"]
              /\ current_model_name' = larg[t]
              /\ Go(t, "L_ret_true")
         ELSE /\ model' = [id |-> fresh, stage |-> "partial"]
              /\ UNCHANGED current_model_name
              /\ Go(t, "L_ret_false")
  /\ fresh' = None
  /\ UNCHANGED <<tokenizer, cfgVars, fmtVars, running, callVars, reqVars, sessVars, workVars>>

load_model_dynamic(t) ==
  \/ LCheck(t)
  \/ LTokenizer(t)
  \/ LAcquire(t)
  \/ LPrepare(t)

\* ------------------------------------------------------------ startup

\* startup_event, lines 326-332: the result is only logged.
StartupDone ==
  /\ running = Startup /\ pc[Startup] \in RetPcs
  /\ Go(Startup, "done")
  /\ running' = Idle
  /\ larg' = [larg EXCEPT ![Startup] = None]
  /\ unloads' = [unloads EXCEPT ![Startup] = 0]
  /\ acquires' = [acquires EXCEPT ![Startup] = 0]
  /\ entryName' = [entryName EXCEPT ![Startup] = None]
  /\ UNCHANGED <<slotVars, cfgVars, fmtVars, reqVars, sessVars, workVars>>

\* ------------------------------------------------------------ /config/model

\* Lines 369-371 left out before the load: the file keeps what it held.
PersistSkipped(file, new_model) == file

\* Lines 369-371: model_config.json after the handler's write.
PersistConfig(file, new_model) == new_model

\* A POST /config/model arrives; the server accepts requests once startup is over.
Submit(r) ==
  /\ pc[Startup] = "done"
  /\ pc[r] = "idle"
  /\ \E m \in Models : body' = [body EXCEPT ![r] = m]
  /\ Go(r, "pending")
  /\ UNCHANGED <<slotVars, cfgVars, fmtVars, running, callVars, overlapWith, sessVars, workVars>>

\* update_model_config, lines 363-377, up to the call of load_model_dynamic.
CfgStart(r) ==
  /\ running = Idle /\ pc[r] = "pending"
  /\ configFile' = PersistConfig(configFile, body[r])
  /\ overlapWith' = [q \in Reqs |->
                       IF q # r /\ pc[q] = "pending" THEN body[r] ELSE overlapWith[q]]
  /\ EnterLoad(r, body[r])
  /\ Go(r, "L_check")
  /\ running' = r
  /\ UNCHANGED <<slotVars, MODEL_NAME, fmtVars, body, sessVars, workVars>>

\* Lines 392-394: "except Exception" catches whatever the try block raised,
\* an HTTPException included, and raises HTTPException(500) in its place.
GenericExcept(raised) == "http_500"

\* Lines 364-366 and 392-394 for a body without a model name: the
\* HTTPException(400) is raised inside the try, and the handler's own
\* "except Exception" turns it into HTTPException(500).
CfgMissingName(r) ==
  /\ running = Idle /\ pc[Startup] = "done" /\ pc[r] = "idle"
  /\ Go(r, GenericExcept("http_400"))
  /\ running' = r
  /\ UNCHANGED <<slotVars, cfgVars, fmtVars, callVars, reqVars, sessVars, workVars>>

\* Lines 379-390 and 394: the answer goes out and the handler is over.
CfgReturn(r) ==
  /\ running = r /\ pc[r] \in RetPcs \cup {"http_400", "http_500"}
  /\ Go(r, "idle")
  /\ running' = Idle
  /\ body' = [body EXCEPT ![r] = None]
  /\ overlapWith' = [overlapWith EXCEPT ![r] = None]
  /\ LeaveLoad(r)
  /\ UNCHANGED <<slotVars, cfgVars, fmtVars, sessVars, workVars>>

\* ------------------------------------------------------------ /ws

\* The events of one connection against (start token* (end | error))*:
\* q0 between cycles, q1 inside one, "bad" once an event came out of place.
Observe(q, event) ==
  CASE q = "q0" /\ event = "start" -> "q1"
    [] q = "q1" /\ event = "token" -> "q1"
    [] q = "q1" /\ event \in {"end", "error"} -> "q0"
    [] OTHER -> "bad"

\* The worker of a stream the generator was left without line 309: still
\* running, or over (ended or died) and never joined.
Abandoned(th) == IF th = "running" THEN "running" ELSE "none"

\* ConnectionManager.disconnect, line 88: list.remove drops the first occurrence.
RECURSIVE Remove(_, _)
Remove(list, x) ==
  IF list = <<>> THEN <<>>
  ELSE IF Head(list) = x THEN Tail(list)
  ELSE <<Head(list)>> \o Remove(Tail(list), x)

\* Lines 430-431 and ConnectionManager.connect (84-85).
Connect(s) ==
  /\ running = Idle /\ pc[Startup] = "done" /\ pc[s] = "off"
  /\ active_connections' = Append(active_connections, s)
  /\ Go(s, "recv")
  /\ UNCHANGED <<slotVars, cfgVars, fmtVars, running, callVars, reqVars, proto, cycle, failed,
                 lateWrite, erred, workVars>>

\* Lines 436-443: receive_text returns a request, which parses or not, or
\* raises WebSocketDisconnect; both exceptions end the handler (464-469).
Receive(s) ==
  /\ running = Idle /\ pc[s] = "recv"
  /\ \E kind \in {"good", "bad", "disconnect"} :
       CASE kind = "good" ->
              /\ cycle' = [cycle EXCEPT ![s] = "open"]
              /\ Go(s, "send_start")
              /\ UNCHANGED active_connections
         [] kind = "bad" ->
              /\ cycle' = [cycle EXCEPT ![s] = "open"]
              /\ active_connections' = Remove(active_connections, s)
              /\ Go(s, "closing")
         [] kind = "disconnect" ->
              /\ active_connections' = Remove(active_connections, s)
              /\ Go(s, "closing")
              /\ UNCHANGED cycle
  /\ UNCHANGED <<slotVars, cfgVars, fmtVars, running, callVars, reqVars, proto, failed,
                 lateWrite, erred, workVars>>

\* Line 446, then the first lines of generate_response (265-266) and of
\* load_model (223-227). A failed send of start is outside the inner try.
SendStart(s) ==
  /\ running = Idle /\ pc[s] = "send_start"
  /\ \E alive \in BOOLEAN :
       IF alive
         THEN /\ proto' = [proto EXCEPT ![s] = Observe(proto[s], "start")]
              /\ running' = s
              /\ IF (model = NoModel \/ tokenizer = None) /\ ~LoadModelHit
                   THEN EnterLoad(s, MODEL_NAME) /\ Go(s, "L_check")
                   ELSE UNCHANGED callVars /\ Go(s, "gen_prep")
              /\ UNCHANGED <<failed, active_connections>>
         ELSE /\ failed' = [failed EXCEPT ![s] = TRUE]
              /\ active_connections' = Remove(active_connections, s)
              /\ Go(s, "closing")
              /\ UNCHANGED <<proto, running, callVars>>
  /\ UNCHANGED <<slotVars, cfgVars, fmtVars, reqVars, cycle, lateWrite, erred, workVars>>

\* load_model, lines 227-231: the result of load_model_dynamic(MODEL_NAME);
\* False raises HTTPException, which the handler's inner except catches.
LazyLoadReturn(s) ==
  /\ running = s /\ pc[s] \in RetPcs
  /\ IF pc[s] = "L_ret_true"
       THEN Go(s, "gen_prep") /\ UNCHANGED running
       ELSE Go(s, "send_error") /\ running' = Idle
  /\ LeaveLoad(s)
  /\ UNCHANGED <<slotVars, cfgVars, fmtVars, reqVars, sessVars, workVars>>

\* Lines 269-301: prompt, tokenization, generation config, thread start.
\* Any of them may raise; with no tokenizer line 272 always does.
GenPrep(s) ==
  /\ running = s /\ pc[s] = "gen_prep"
  /\ \E ok \in BOOLEAN :
       /\ tokenizer = None => ~ok
       /\ IF ok
            THEN /\ thread' = [thread EXCEPT ![s] = "running"]
                 /\ queue' = [queue EXCEPT ![s] = <<>>]
                 /\ produced' = [produced EXCEPT ![s] = 0]
                 /\ delivered' = [delivered EXCEPT ![s] = 0]
                 /\ Go(s, "wait")
                 /\ UNCHANGED running
            ELSE /\ Go(s, "send_error")
                 /\ running' = Idle
                 /\ UNCHANGED workVars
  /\ UNCHANGED <<slotVars, cfgVars, fmtVars, callVars, reqVars, sessVars>>

\* Line 303: the blocking next() of the streamer returns an item. The stop
\* signal ends the loop; text is yielded to the handler, which awaits its
\* send (451). The text stays at the head of the queue until it is sent.
NextFragment(s) ==
  /\ running = s /\ pc[s] = "wait" /\ queue[s] # <<>>
  /\ IF Head(queue[s]) = END
       THEN /\ queue' = [queue EXCEPT ![s] = Tail(queue[s])]
            /\ Go(s, "join")
            /\ UNCHANGED running
       ELSE /\ Go(s, "send_token")
            /\ running' = Idle
            /\ UNCHANGED queue
  /\ UNCHANGED <<slotVars, cfgVars, fmtVars, callVars, reqVars, sessVars, thread, produced,
                 delivered>>

\* A streamer built without a timeout: the wait for an item never expires.
NeverExpires(q, th) == FALSE

\* Line 293, timeout=5.0: the wait for an item expires when the queue stays
\* empty; a worker that has ended has put the stop signal.
Expires(q, th) == q = <<>> /\ th # "done"

\* Line 293/303: no item within timeout=5.0, queue.Empty is raised through
\* the generator (309 is skipped) into the handler's inner except.
StreamTimeout(s) ==
  /\ running = s /\ pc[s] = "wait"
  /\ Expires(queue[s], thread[s])
  /\ Go(s, "send_error")
  /\ running' = Idle
  /\ produced' = [produced EXCEPT ![s] = 0]
  /\ delivered' = [delivered EXCEPT ![s] = 0]
  /\ thread' = [thread EXCEPT ![s] = Abandoned(thread[s])]
  /\ UNCHANGED <<slotVars, cfgVars, fmtVars, callVars, reqVars, sessVars, queue>>

\* Line 309: thread.join() returns once the worker is over.
Join(s) ==
  /\ running = s /\ pc[s] = "join" /\ thread[s] = "done"
  /\ thread' = [thread EXCEPT ![s] = "none"]
  /\ produced' = [produced EXCEPT ![s] = 0]
  /\ delivered' = [delivered EXCEPT ![s] = 0]
  /\ Go(s, "send_end")
  /\ running' = Idle
  /\ UNCHANGED <<slotVars, cfgVars, fmtVars, callVars, reqVars, sessVars, queue>>

\* Lines 451-454: the token goes out and the generator is resumed, or the
\* send raises and the inner except takes over.
SendToken(s) ==
  /\ running = Idle /\ pc[s] = "send_token"
  /\ \E alive \in BOOLEAN :
       IF alive
         THEN /\ proto' = [proto EXCEPT ![s] = Observe(proto[s], "token")]
              /\ queue' = [queue EXCEPT ![s] = Tail(queue[s])]
              /\ Go(s, "wait")
              /\ running' = s
              /\ delivered' = [delivered EXCEPT ![s] = delivered[s] + 1]
              /\ UNCHANGED <<failed, produced, thread>>
         ELSE /\ failed' = [failed EXCEPT ![s] = TRUE]
              /\ queue' = [queue EXCEPT ![s] = <<>>]
              /\ produced' = [produced EXCEPT ![s] = 0]
              /\ delivered' = [delivered EXCEPT ![s] = 0]
              /\ thread' = [thread EXCEPT ![s] = Abandoned(thread[s])]
              /\ Go(s, "send_error")
              /\ UNCHANGED <<proto, running>>
  /\ UNCHANGED <<slotVars, cfgVars, fmtVars, callVars, reqVars, cycle, lateWrite,
                 erred, active_connections>>

\* Line 456, inside the inner try.
SendEnd(s) ==
  /\ running = Idle /\ pc[s] = "send_end"
  /\ \E alive \in BOOLEAN :
       IF alive
         THEN /\ proto' = [proto EXCEPT ![s] = Observe(proto[s], "end")]
              /\ cycle' = [cycle EXCEPT ![s] = "none"]
              /\ erred' = [erred EXCEPT ![s] = FALSE]
              /\ Go(s, "recv")
              /\ UNCHANGED failed
         ELSE /\ failed' = [failed EXCEPT ![s] = TRUE]
              /\ Go(s, "send_error")
              /\ UNCHANGED <<proto, cycle, erred>>
  /\ UNCHANGED <<slotVars, cfgVars, fmtVars, running, callVars, reqVars, lateWrite,
                 active_connections, workVars>>

\* An inner except that lets the error end the handler.
AfterErrorLeaves == "closing"

\* Lines 434 and 458-462: the inner except is inside the while loop, so the
\* handler goes back to receive_text once the error event is out.
AfterError == "recv"

\* Lines 458-462: the inner except writes the error event whatever was
\* raised, a failed send included; if this send raises too, the outer
\* handlers (464-469) end the connection. The worker of an abandoned stream
\* is left to itself from here on. record says whether the history
\* variable erred notes the error event.
SendErrorNoting(s, record) ==
  /\ running = Idle /\ pc[s] = "send_error"
  /\ \E alive \in BOOLEAN :
       /\ alive => ~failed[s]
       /\ IF alive
            THEN /\ proto' = [proto EXCEPT ![s] = Observe(proto[s], "error")]
                 /\ cycle' = [cycle EXCEPT ![s] = "none"]
                 /\ erred' = [erred EXCEPT ![s] = record]
                 /\ Go(s, AfterError)
                 /\ UNCHANGED <<failed, lateWrite, active_connections>>
            ELSE /\ lateWrite' = [lateWrite EXCEPT ![s] = failed[s]]
                 /\ failed' = [failed EXCEPT ![s] = TRUE]
                 /\ active_connections' = Remove(active_connections, s)
                 /\ Go(s, "closing")
                 /\ UNCHANGED <<proto, cycle, erred>>
  /\ thread' = [thread EXCEPT ![s] = "none"]
  /\ queue' = [queue EXCEPT ![s] = <<>>]
  /\ UNCHANGED <<slotVars, cfgVars, fmtVars, running, callVars, reqVars, produced,
                 delivered>>

SendError(s) == SendErrorNoting(s, FALSE)

\* The endpoint has returned: the framework closes the connection.
Close(s) ==
  /\ pc[s] = "closing"
  /\ Go(s, "off")
  /\ proto' = [proto EXCEPT ![s] = "q0"]
  /\ cycle' = [cycle EXCEPT ![s] = "none"]
  /\ failed' = [failed EXCEPT ![s] = FALSE]
  /\ lateWrite' = [lateWrite EXCEPT ![s] = FALSE]
  /\ erred' = [erred EXCEPT ![s] = FALSE]
  /\ UNCHANGED <<slotVars, cfgVars, fmtVars, running, callVars, reqVars, active_connections,
                 workVars>>

websocket_endpoint(s) ==
  \/ Connect(s)
  \/ Receive(s)
  \/ SendStart(s)
  \/ LazyLoadReturn(s)
  \/ GenPrep(s)
  \/ NextFragment(s)
  \/ StreamTimeout(s)
  \/ Join(s)
  \/ SendToken(s)
  \/ SendEnd(s)
  \/ SendError(s)
  \/ Close(s)

\* The handler's task is cancelled while it awaits (436, 446, 451, 456 or
\* 459): CancelledError is a BaseException, so neither the inner
\* "except Exception" nor the outer handlers (464-469) run and
\* manager.disconnect is not called. The stream and the worker, if any, are
\* left as they are.
Cancel(s) ==
  /\ running = Idle
  /\ pc[s] \in {"recv", "send_start", "send_token", "send_end", "send_error"}
  /\ Go(s, "cancelled")
  /\ proto' = [proto EXCEPT ![s] = "q0"]
  /\ cycle' = [cycle EXCEPT ![s] = "none"]
  /\ failed' = [failed EXCEPT ![s] = FALSE]
  /\ erred' = [erred EXCEPT ![s] = FALSE]
  /\ thread' = [thread EXCEPT ![s] = "none"]
  /\ queue' = [queue EXCEPT ![s] = <<>>]
  /\ produced' = [produced EXCEPT ![s] = 0]
  /\ delivered' = [delivered EXCEPT ![s] = 0]
  /\ UNCHANGED <<slotVars, cfgVars, fmtVars, running, callVars, reqVars, lateWrite,
                 active_connections>>

\* ------------------------------------------------------------ /chat

\* An except clause that unloads the model when generation has failed.
ChatExceptUnloads(m, tk, nm) == unload_model(m, tk, nm, FALSE)

\* Lines 423-425: the except clause of chat_completion logs and raises
\* HTTPException(500); the globals are as generate_response left them.
ChatExcept(m, tk, nm) == [m |-> m, tk |-> tk, nm |-> nm]

\* chat_completion, lines 399-411, and the first lines of generate_response
\* (265-266) and load_model (223-227). With stream set the handler answers
\* at once (400-402). Nothing in the handler awaits anything that suspends
\* it, so it keeps the event loop until it returns.
ChatStart(c) ==
  /\ running = Idle /\ pc[Startup] = "done" /\ pc[c] = "idle"
  /\ running' = c
  /\ \E stream \in BOOLEAN :
       IF stream
         THEN UNCHANGED callVars /\ Go(c, "chat_200")
         ELSE IF (model = NoModel \/ tokenizer = None) /\ ~LoadModelHit
                THEN EnterLoad(c, MODEL_NAME) /\ Go(c, "L_check")
                ELSE UNCHANGED callVars /\ Go(c, "chat_gen")
  /\ UNCHANGED <<slotVars, cfgVars, fmtVars, reqVars, sessVars, workVars>>

\* load_model, lines 227-231: False raises HTTPException, which the
\* handler's except (423-425) answers with 500.
ChatLoadReturn(c) ==
  /\ running = c /\ pc[c] \in RetPcs
  /\ Go(c, IF pc[c] = "L_ret_true" THEN "chat_gen" ELSE "chat_500")
  /\ LeaveLoad(c)
  /\ UNCHANGED <<slotVars, cfgVars, fmtVars, running, reqVars, sessVars, workVars>>

\* Lines 269-289 and 312-315: prompt, tokenization and model.generate on
\* the event loop's own thread; then 412-421, or 423-425 if anything raised.
ChatGenerate(c) ==
  /\ running = c /\ pc[c] = "chat_gen"
  /\ \E ok \in BOOLEAN :
       /\ tokenizer = None => ~ok
       /\ LET after == IF ok THEN [m |-> model, tk |-> tokenizer, nm |-> current_model_name]
                        ELSE ChatExcept(model, tokenizer, current_model_name)
          IN /\ model' = after.m
             /\ tokenizer' = after.tk
             /\ current_model_name' = after.nm
       /\ Go(c, IF ok THEN "chat_200" ELSE "chat_500")
  /\ UNCHANGED <<fresh, cfgVars, fmtVars, running, callVars, reqVars, sessVars, workVars>>

\* The answer of /chat goes out.
ChatReturn(c) ==
  /\ running = c /\ pc[c] \in {"chat_200", "chat_500"}
  /\ Go(c, "idle")
  /\ running' = Idle
  /\ UNCHANGED <<slotVars, cfgVars, fmtVars, callVars, reqVars, sessVars, workVars>>

chat_completion(c) ==
  \/ ChatStart(c)
  \/ ChatLoadReturn(c)
  \/ ChatGenerate(c)
  \/ ChatReturn(c)

\* ------------------------------------------------------------ worker thread

\* A streamer whose queue hands out the newest text first.
PutFront(q, text) == <<text>> \o q

\* The streamer of a call (293) is a FIFO queue of its own: put appends.
Put(q, text) == Append(q, text)

\* model.generate on its own thread (300-301): it puts text on the streamer.
Produce(s) ==
  /\ thread[s] = "running" /\ pc[s] \in {"wait", "send_token"}
  /\ produced[s] < MaxFrags
  /\ queue' = [queue EXCEPT ![s] = Put(queue[s], produced[s] + 1)]
  /\ produced' = [produced EXCEPT ![s] = produced[s] + 1]
  /\ UNCHANGED <<slotVars, cfgVars, fmtVars, running, pc, callVars, reqVars, sessVars, thread,
                 delivered>>

\* A fragment of a stream the handler has left: it lands on a queue nobody
\* reads, and nothing is raised.
LateFragment(s) ==
  /\ thread[s] = "running" /\ pc[s] = "send_error"
  /\ UNCHANGED vars

\* generate returns: streamer.end() puts the stop signal and the thread ends.
WorkerFinish(s) ==
  /\ thread[s] = "running"
  /\ thread' = [thread EXCEPT ![s] = IF pc[s] = "send_error" THEN "none" ELSE "done"]
  /\ queue' = [queue EXCEPT ![s] =
                 IF pc[s] = "send_error" THEN queue[s] ELSE Append(queue[s], END)]
  /\ UNCHANGED <<slotVars, cfgVars, fmtVars, running, pc, callVars, reqVars, sessVars, produced,
                 delivered>>

\* generate raises in the thread: the thread ends and no stop signal is put.
WorkerDie(s) ==
  /\ thread[s] = "running"
  /\ thread' = [thread EXCEPT ![s] = IF pc[s] = "send_error" THEN "none" ELSE "dead"]
  /\ UNCHANGED <<slotVars, cfgVars, fmtVars, running, pc, callVars, reqVars, sessVars, queue,
                 produced, delivered>>

worker(s) == Produce(s) \/ LateFragment(s) \/ WorkerFinish(s) \/ WorkerDie(s)

\* GET /health, lines 339-358: reads the globals, changes nothing.
HealthCheck ==
  /\ running = Idle
  /\ health_check.model_loaded \in BOOLEAN
  /\ UNCHANGED vars

Next ==
  \/ \E t \in Tasks : load_model_dynamic(t)
  \/ StartupDone
  \/ \E r \in Reqs : Submit(r) \/ CfgStart(r) \/ CfgMissingName(r) \/ CfgReturn(r)
  \/ HealthCheck
  \/ \E s \in Sessions : websocket_endpoint(s) \/ worker(s)

Spec == Init /\ [][Next]_vars

\* The server with its streaming sessions alone: no /config/model request
\* and no /chat request arrives.
NextServe ==
  \/ \E t \in Sessions \cup {Startup} : load_model_dynamic(t)
  \/ StartupDone
  \/ HealthCheck
  \/ \E s \in Sessions : websocket_endpoint(s) \/ worker(s)

ServeSpec == Init /\ [][NextServe]_vars

\* Lines 236-244: the tokenizer has a chat template.
FormatPrimary ==
  /\ prompt = None
  /\ prompt' = format_messages_for_qwen(messages, TRUE)
  /\ UNCHANGED <<slotVars, cfgVars, running, pc, callVars, reqVars, sessVars, workVars,
                 messages>>

\* Lines 245-259: no template, or applying it raised.
FormatFallback ==
  /\ prompt = None
  /\ prompt' = format_messages_for_qwen(messages, FALSE)
  /\ UNCHANGED <<slotVars, cfgVars, running, pc, callVars, reqVars, sessVars, workVars,
                 messages>>

NextFormat == FormatPrimary \/ FormatFallback

FormatSpec == InitFormat /\ [][NextFormat]_vars

\* NextServe with handlers that may be cancelled.
NextCancel ==
  \/ NextServe
  \/ \E s \in Sessions : Cancel(s)

CancelSpec == Init /\ [][NextCancel]_vars

\* NextServe with /chat requests.
NextChat ==
  \/ NextServe
  \/ \E c \in Chats : load_model_dynamic(c) \/ chat_completion(c)

ChatSpec == Init /\ [][NextChat]_vars

\* The handler's steps from the receipt of a request to its end event.
StreamSteps(s) ==
  \/ SendStart(s)
  \/ LazyLoadReturn(s)
  \/ GenPrep(s)
  \/ NextFragment(s)
  \/ StreamTimeout(s)
  \/ Join(s)
  \/ SendToken(s)
  \/ SendEnd(s)

\* NextServe with the error events noted in erred.
NextLive ==
  \/ \E t \in Sessions \cup {Startup} : load_model_dynamic(t)
  \/ StartupDone
  \/ HealthCheck
  \/ \E s \in Sessions :
       \/ Connect(s) \/ Receive(s)
       \/ StreamSteps(s)
       \/ SendErrorNoting(s, TRUE)
       \/ Close(s)
       \/ worker(s)

\* The event loop runs every task that is ready, in the order the tasks
\* became ready, so a handler whose await has completed is not overtaken for
\* ever; synchronous code runs on, and the streamer's timed wait returns or
\* expires. Nothing is assumed of the clients or of the worker threads.
LiveSpec ==
  /\ Init /\ [][NextLive]_vars
  /\ \A t \in Sessions \cup {Startup} : WF_vars(load_model_dynamic(t))
  /\ WF_vars(StartupDone)
  /\ \A s \in Sessions :
       /\ SF_vars(StreamSteps(s))
       /\ SF_vars(SendErrorNoting(s, TRUE))
       /\ WF_vars(Close(s))

\* ------------------------------------------------------------ claims

\* C1: at most one model is resident at any instant: no new model instance
\* is acquired while a previously loaded instance is still held in the model
\* slot. (Stated as the claim; load_model_dynamic(x) with x already current
\* skips unload_model and builds a second instance.)
C1_SingleResident == fresh # None => model = NoModel

\* C2: whenever load_model_dynamic returns False, current_model_name is None.
C2_FailedLoadLeavesNone ==
  \A t \in Tasks : pc[t] = "L_ret_false" => current_model_name = None

\* C3: after load_model_dynamic returns False, whichever step failed, the
\* model handle and the tokenizer handle are both None.
C3_NoHalfBuiltModel ==
  \A t \in Tasks : pc[t] = "L_ret_false" => model = NoModel /\ tokenizer = None

\* C4: the events sent for every request received on a connection match
\* start token* (end | error): no event is out of place, and the handler
\* never leaves a received request without its events while the client is
\* still there.
C4_EventGrammar ==
  \A s \in Sessions :
    /\ proto[s] # "bad"
    /\ (pc[s] = "closing" /\ ~failed[s]) => cycle[s] = "none"

\* C5: two concurrent /config/model requests for different ids never have
\* their load_model_dynamic calls in progress together, and when the later
\* one's call has returned, model, tokenizer and current_model_name all
\* belong to one of the two requested ids (or, both loads having failed,
\* the slot is empty): never a mix.
C5_SerializedSwitches ==
  /\ Cardinality({t \in Tasks : pc[t] \in LoadPcs \cup RetPcs}) <= 1
  /\ \A r \in Reqs :
       (pc[r] \in RetPcs /\ overlapWith[r] \notin {None, larg[r]})
         => OwnedBy(larg[r]) \/ OwnedBy(overlapWith[r]) \/ OwnedBy(None)

\* C6: once a send on a session's socket has failed, the handler attempts no
\* further write on that socket.
C6_NoWriteAfterFailedSend == \A s \in Sessions : ~lateWrite[s]

\* C7: while a request waits for its next fragment, or for the worker to
\* complete, the event loop is free: a /health request can be served.
C7_LoopFreeWhileWaiting ==
  \A s \in Sessions :
    ((pc[s] = "wait" /\ queue[s] = <<>>) \/ pc[s] = "join") => ENABLED HealthCheck

\* C8: load_model_dynamic(x) called while x is resident is a cache hit: it
\* acquires neither the tokenizer nor the model again.
C8_SecondLoadIsCacheHit ==
  \A t \in Tasks :
    (larg[t] # None /\ entryName[t] = larg[t])
      => (pc[t] \notin {"L_model", "L_prep"} /\ acquires[t] = 0)

\* C9: a /config/model switch to B while A # B is resident releases exactly
\* one model, acquires at most one, and when load_model_dynamic returns True
\* it has acquired exactly one and model, tokenizer and current_model_name
\* are those of B.
C9_SwitchUnloadsOnceLoadsOnce ==
  \A r \in Reqs :
    (pc[r] \in RetPcs /\ entryName[r] \notin {None, larg[r]})
      => /\ unloads[r] = 1
         /\ acquires[r] <= 1
         /\ pc[r] = "L_ret_true"
              => /\ acquires[r] = 1
                 /\ Resident
                 /\ OwnedBy(larg[r])

\* C9 witness: a switch from a resident model to a different one has returned True.
C9_Witness ==
  \E r \in Reqs :
    /\ pc[r] = "L_ret_true"
    /\ entryName[r] \notin {None, larg[r]}
    /\ current_model_name = larg[r]
    /\ unloads[r] = 1

\* C10 as stated: model_config.json is written only after load_model_dynamic
\* has returned, never before: the file changes only in a step of a request
\* whose call has returned.
C10_PersistAfterSwitch ==
  [][configFile' # configFile => \E r \in Reqs : pc[r] \in RetPcs]_vars

\* C10 amended: the write comes first: from the first step of a request's
\* load_model_dynamic(id) to its return, model_config.json already names id,
\* whether the load succeeds or fails.
C10_PersistBeforeSwitch ==
  \A r \in Reqs : pc[r] \in LoadPcs \cup RetPcs => configFile = larg[r]

\* C10 witness: a request's load has failed and the file names its id.
C10_Witness ==
  \E r \in Reqs :
    /\ pc[r] = "L_ret_false"
    /\ configFile = larg[r]
    /\ current_model_name # larg[r]

\* C11: every worker thread a streaming generate_response call has started
\* is joined before the call is over: a thread is running only while its
\* call is still inside the stream (waiting for an item, handing a fragment
\* to the handler, or joining).
C11_WorkerJoinedOnExit ==
  \A s \in Sessions : thread[s] = "running" => pc[s] \in {"wait", "send_token", "join"}

\* C12: when unload_model() returns, whatever the state it was called in,
\* model, tokenizer and current_model_name are all None.
C12_UnloadLeavesEmpty ==
  [][\A t \in Tasks :
       (pc[t] = "L_check" /\ pc'[t] = "L_tok" /\ NeedsUnload(current_model_name, larg[t]))
         => (model' = NoModel /\ tokenizer' = None /\ current_model_name' = None)]_vars

\* C13: a streaming request that has emitted start goes on to a terminal
\* event unless a send on its connection fails; a worker that dies leads to
\* the error event (or to a failed send), and is never followed by end: the
\* handler joins and sends end only after the stop signal of a worker that
\* has finished.
C13_StreamTerminates ==
  \A s \in Sessions :
    /\ (proto[s] = "q1") ~> ((proto[s] = "q0" /\ pc[s] = "recv") \/ failed[s])
    /\ (thread[s] = "dead") ~> (erred[s] \/ failed[s])
    /\ [](thread[s] = "dead" => pc[s] \in {"wait", "send_token"})
    /\ [](pc[s] = "join" => thread[s] = "done")

\* C13 witness: start is out, the worker has stalled and the wait for the
\* next fragment has expired: the error event is about to be sent.
C13_Witness ==
  \E s \in Sessions :
    /\ proto[s] = "q1" /\ pc[s] = "send_error"
    /\ thread[s] = "running" /\ ~failed[s]

\* Positions of a handler inside the generation of a request: from the
\* prompt to the terminal event or the answer.
GenPcs ==
  {"gen_prep", "wait", "send_token", "join", "send_end", "send_error",
   "chat_gen", "chat_200", "chat_500"}

\* C14: no step of a request's generation, failure included (the prompt or
\* the tokenizer raising, the stalled stream's timeout, the worker thread
\* dying, the except clauses that report the failure), changes model,
\* tokenizer or current_model_name, on the streaming and on the single-shot
\* path alike.
C14_GenerationKeepsLifecycle ==
  [][((\E t \in Sessions \cup Chats : pc[t] \in GenPcs /\ pc'[t] # pc[t]) \/ thread' # thread)
       => UNCHANGED <<model, tokenizer, current_model_name>>]_vars

\* C14 witness: a single-shot request whose generation failed is about to
\* be answered with 500 while a stream has lost its worker, and the model is
\* still resident and whole.
C14_Witness ==
  /\ \E c \in Chats : pc[c] = "chat_500" /\ larg[c] = None
  /\ \E s \in Sessions : pc[s] = "send_token" /\ thread[s] = "dead"
  /\ Resident /\ OwnedBy(MODEL_NAME)

\* Text items on a streamer's queue.
TextItems(q) == {i \in 1..Len(q) : q[i] # END}

\* C15: with two sessions streaming at the same time, under every
\* interleaving the events of each session follow start token* (end |
\* error), and the token events of a session carry the fragments of its own
\* generation in production order: the k-th token event carries the k-th
\* fragment, nothing is lost, duplicated or reordered, and end comes only
\* when every fragment produced has been delivered.
C15_OwnFragmentsInOrder ==
  \A s \in Sessions :
    /\ proto[s] # "bad"
    /\ pc[s] \in {"wait", "send_token"} =>
         /\ \A i \in TextItems(queue[s]) : queue[s][i] = delivered[s] + i
         /\ delivered[s] + Cardinality(TextItems(queue[s])) = produced[s]
    /\ pc[s] = "send_token" => Head(queue[s]) = delivered[s] + 1
    /\ pc[s] = "join" => (queue[s] = <<>> /\ delivered[s] = produced[s])

\* C15 witness: both sessions are inside a cycle and each has been sent a
\* fragment of its own while the other's stream was in flight.
C15_Witness ==
  /\ \A s \in Sessions : proto[s] = "q1" /\ delivered[s] >= 1 /\ thread[s] # "none"
  /\ \E s \in Sessions : pc[s] = "send_token" /\ Len(queue[s]) = MaxFrags

\* Occurrences of a connection in the registry.
Registered(s) == Cardinality({i \in 1..Len(active_connections) : active_connections[i] = s})

\* C16: active_connections holds exactly the connections whose handler is
\* running, each once: a connection whose handler has exited, by whatever
\* path, is in the registry no more.
C16_RegistryExact ==
  \A s \in Sessions :
    Registered(s) = IF pc[s] \in {"off", "closing", "cancelled"} THEN 0 ELSE 1

\* C17: the step that sends an error event takes the handler back to
\* receive_text with the connection still registered; while the last cycle
\* of a connection ended with error, the handler waiting for or answering
\* the next request is registered and between cycles until start is out; the
\* event loop gets free for that request to be received; and once it is
\* received it is answered with start, unless the send fails.
C17_UsableAfterError ==
  /\ [][\A s \in Sessions :
         (pc[s] = "send_error" /\ proto'[s] # proto[s])
           => (pc'[s] = "recv" /\ proto'[s] = "q0" /\ erred'[s]
               /\ \E i \in 1..Len(active_connections') : active_connections'[i] = s)]_vars
  /\ \A s \in Sessions :
       /\ []((erred[s] /\ pc[s] \in {"recv", "send_start"})
               => (proto[s] = "q0"
                   /\ \E i \in 1..Len(active_connections) : active_connections[i] = s))
       /\ (erred[s] /\ pc[s] = "recv") ~> (running = Idle \/ pc[s] # "recv")
       /\ (erred[s] /\ pc[s] = "send_start") ~> (proto[s] = "q1" \/ failed[s])

\* C17 witness: after a cycle that ended with error, the next request on
\* the same connection has been answered with start and is streaming.
C17_Witness ==
  \E s \in Sessions :
    /\ erred[s] /\ proto[s] = "q1" /\ delivered[s] >= 1
    /\ \E i \in 1..Len(active_connections) : active_connections[i] = s

\* The fallback format as C18 states it: one block per message of the
\* input, whatever its role, in the input's order, and the open assistant
\* block last, joined by newlines.
RECURSIVE OneBlockPerMessage(_)
OneBlockPerMessage(msgs) ==
  IF msgs = <<>> THEN OpenAssistant
  ELSE <<"<|im_start|>", Head(msgs).role, NL, Head(msgs).content, "<|im_end|>", NL>>
         \o OneBlockPerMessage(Tail(msgs))

\* C18: when the fallback format is used, the prompt holds exactly one
\* <|im_start|>{role}\n{content}<|im_end|> block per input message, in the
\* input order, joined by newlines, followed by the open assistant block.
C18_FallbackOneBlockPerMessage ==
  (prompt # None /\ prompt # Templated) => prompt = OneBlockPerMessage(messages)

\* C19: unload_model never releases a model while a generation worker
\* thread is still running.
C19_NoUnloadUnderWorker ==
  [][\A t \in Tasks :
       (pc[t] = "L_check" /\ pc'[t] = "L_tok" /\ model # NoModel /\ model' = NoModel)
         => \A s \in Sessions : thread[s] # "running"]_vars

\* C20: once /config/model has written model_config.json, a chat request
\* that finds no model resident and loads one through load_model loads the
\* model the file names.
C20_LazyLoadsPersistedDefault ==
  \A s \in Sessions \cup Chats :
    (pc[s] \in LoadPcs /\ configFile # NoFile) => larg[s] = load_model_config(configFile)

\* C21: a POST /config/model whose body has no model name is answered with
\* HTTP 400: the outcome raised at line 366 reaches the caller unchanged.
C21_MissingNameIs400 ==
  \A r \in Reqs :
    (pc[r] \in {"http_400", "http_500"} /\ body[r] = None) => pc[r] = "http_400"

====
